---- MODULE Spec2Model ----
(***************************************************************************)
(* A model of the azan prayer-time library: the PrayerTimes assembler      *)
(* (src/src/schedule.rs), its Parameters (src/src/models), the             *)
(* PrayerSchedule builder and the current/next lookup.                     *)
(*                                                                         *)
(* Instants are whole seconds counted from UTC midnight of date 0.  A      *)
(* NaiveDate is the number of the day, a Coordinates value is a record of  *)
(* whole degrees, an angle is counted in tenths of a degree, and a night   *)
(* portion is the fraction <<numerator, denominator>>.                     *)
(*                                                                         *)
(* The astronomy module (SolarTime, ops, the Stride helpers) is declared   *)
(* in src/src/lib.rs but its code is not part of the sources: it is        *)
(* modelled from the specification as a small almanac.                     *)
(***************************************************************************)
EXTENDS Integers, Sequences, FiniteSets, TLC

VARIABLES
    date,           \* PrayerSchedule.date: Option<NaiveDate>
    coordinates,    \* PrayerSchedule.coordinates: Option<Coordinates>
    params,         \* PrayerSchedule.params: Option<Parameters>
    supplied,       \* history: the last argument given to each setter
    ret,            \* the value returned by the most recent call
    times,          \* the PrayerTimes value the caller holds (lookup)
    now,            \* the ambient clock read by Utc::now() (lookup)
    config          \* the Configuration builder the caller holds (parameters)

vars == <<date, coordinates, params, supplied, ret, times, now, config>>

None == [tag |-> "None"]
Some(v) == [tag |-> "Some", value |-> v]
is_some(o) == o.tag = "Some"
unwrap(o) == o.value

(***************************************************************************)
(* Bounds of the model.                                                    *)
(***************************************************************************)
\* Dates 0 .. MaxDay can be given to the builder.
MaxDay == 1

(***************************************************************************)
(* Units.                                                                  *)
(***************************************************************************)
SecondsPerMinute == 60
SecondsPerDay == 24 * 60 * SecondsPerMinute

\* Integer division truncating toward zero, as Rust's `/` on i64 and the
\* `as i64` cast of an f64 do.
TruncDiv(a, b) == IF a >= 0 THEN a \div b ELSE -((-a) \div b)

Abs(x) == IF x < 0 THEN -x ELSE x

(***************************************************************************)
(* Models: Prayer, Mazhab, Rounding, Twilight, HighLatitudeRule,           *)
(* IshaaParameter, TimeAdjustment, Parameters.                             *)
(***************************************************************************)
Prayer == <<"Fajr", "Sunrise", "Dhuhr", "Asr", "Maghrib", "Ishaa", "Qiyam", "FajrTomorrow">>
PrayerSet == {Prayer[i] : i \in 1..Len(Prayer)}

Rounding == {"Nearest", "Ceil", "None"}
Twilight == {"General", "Red", "White"}
Mazhab == {"Shafi", "Hanafi"}
HighLatitudeRule == {"MiddleOfTheNight", "SeventhOfTheNight", "TwilightAngle"}

Angle(a) == [tag |-> "Angle", value |-> a]
Interval(n) == [tag |-> "Interval", value |-> n]

\* Mazhab::shadow with the two factors exchanged.
shadow_swapped(madhab) == IF madhab = "Shafi" THEN 2 ELSE 1

\* Mazhab::shadow
shadow(madhab) == IF madhab = "Shafi" THEN 1 ELSE 2

TimeAdjustment(f, s, d, a, m, i) ==
    [fajr |-> f, sunrise |-> s, dhuhr |-> d, asr |-> a, maghrib |-> m, ishaa |-> i]

\* TimeAdjustment::default()
NoAdjustment == TimeAdjustment(0, 0, 0, 0, 0, 0)

\* The angle of an IshaaParameter: an interval-based one holds none (the
\* evening fraction degenerates to 0).
ishaa_parameter_angle(ishaa_parameter) ==
    IF ishaa_parameter.tag = "Angle" THEN ishaa_parameter.value ELSE 0

\* self.ishaa_angle as Parameters::night_portions reads it.  The Parameters of
\* parameters.rs declares the field; the Parameters that schedule.rs and
\* method.rs use holds an IshaaParameter in its place.
ishaa_angle(parameters) ==
    IF "ishaa_angle" \in DOMAIN parameters
    THEN parameters.ishaa_angle
    ELSE ishaa_parameter_angle(parameters.ishaa_parameter)

\* Parameters::night_portions with the two angles exchanged.
night_portions_swapped(parameters) ==
    CASE parameters.high_latitude_rule = "MiddleOfTheNight" -> << <<1, 2>>, <<1, 2>> >>
      [] parameters.high_latitude_rule = "SeventhOfTheNight" -> << <<1, 7>>, <<1, 7>> >>
      [] parameters.high_latitude_rule = "TwilightAngle" ->
            << <<ishaa_angle(parameters), 600>>, <<parameters.fajr_angle, 600>> >>

\* Parameters::night_portions: (morning, evening) fractions of the night.
\* Angles are tenths of a degree, so angle / 60.0 is tenths / 600.
night_portions(parameters) ==
    CASE parameters.high_latitude_rule = "MiddleOfTheNight" -> << <<1, 2>>, <<1, 2>> >>
      [] parameters.high_latitude_rule = "SeventhOfTheNight" -> << <<1, 7>>, <<1, 7>> >>
      [] parameters.high_latitude_rule = "TwilightAngle" ->
            << <<parameters.fajr_angle, 600>>, <<ishaa_angle(parameters), 600>> >>

\* Parameters::time_adjustments giving Hanafi a minute more before Maghrib.
time_adjustments_by_madhab(parameters, prayer) ==
    CASE prayer = "Fajr" -> parameters.adjustments.fajr + parameters.method_adjustments.fajr
      [] prayer = "Sunrise" -> parameters.adjustments.sunrise + parameters.method_adjustments.sunrise
      [] prayer = "Dhuhr" -> parameters.adjustments.dhuhr + parameters.method_adjustments.dhuhr
      [] prayer = "Asr" -> parameters.adjustments.asr + parameters.method_adjustments.asr
      [] prayer = "Maghrib" ->
            parameters.adjustments.maghrib + parameters.method_adjustments.maghrib
                + (IF parameters.madhab = "Hanafi" THEN 1 ELSE 0)
      [] prayer = "Ishaa" -> parameters.adjustments.ishaa + parameters.method_adjustments.ishaa
      [] OTHER -> 0

\* Parameters::time_adjustments counting the user-level adjustment alone.
time_adjustments_user_only(parameters, prayer) ==
    CASE prayer = "Fajr" -> parameters.adjustments.fajr
      [] prayer = "Sunrise" -> parameters.adjustments.sunrise
      [] prayer = "Dhuhr" -> parameters.adjustments.dhuhr
      [] prayer = "Asr" -> parameters.adjustments.asr
      [] prayer = "Maghrib" -> parameters.adjustments.maghrib
      [] prayer = "Ishaa" -> parameters.adjustments.ishaa
      [] OTHER -> 0

\* Parameters::time_adjustments: minutes, user-level plus method-level.
time_adjustments(parameters, prayer) ==
    CASE prayer = "Fajr" -> parameters.adjustments.fajr + parameters.method_adjustments.fajr
      [] prayer = "Sunrise" -> parameters.adjustments.sunrise + parameters.method_adjustments.sunrise
      [] prayer = "Dhuhr" -> parameters.adjustments.dhuhr + parameters.method_adjustments.dhuhr
      [] prayer = "Asr" -> parameters.adjustments.asr + parameters.method_adjustments.asr
      [] prayer = "Maghrib" -> parameters.adjustments.maghrib + parameters.method_adjustments.maghrib
      [] prayer = "Ishaa" -> parameters.adjustments.ishaa + parameters.method_adjustments.ishaa
      [] OTHER -> 0

(***************************************************************************)
(* Astronomy, modelled from the specification (sections 4.1, 4.3, 4.4).    *)
(* The solar position of a date and a coordinate is read from an almanac:  *)
(* for each latitude the sunrise, transit and sunset of date 0 (seconds    *)
(* after midnight), their change per day, the seconds the sun needs per    *)
(* degree of depression near the horizon, and the delay of Asr after the   *)
(* transit for shadow factors 1 and 2.                                     *)
(***************************************************************************)
Almanac(latitude) ==
    CASE latitude = 35 ->
            [sunrise |-> 36505, transit |-> 62473, sunset |-> 88344,
             rise_drift |-> 37, transit_drift |-> 6, set_drift |-> -23,
             per_degree |-> 363, asr |-> <<13687, 18049>>]
      [] latitude = 55 ->
            [sunrise |-> 20415, transit |-> 43805, sunset |-> 67235,
             rise_drift |-> -149, transit_drift |-> -17, set_drift |-> 116,
             per_degree |-> 430, asr |-> <<11230, 15310>>]
      [] latitude = -60 ->
            [sunrise |-> 21650, transit |-> 43535, sunset |-> 65420,
             rise_drift |-> 158, transit_drift |-> -17, set_drift |-> -191,
             per_degree |-> 480, asr |-> <<11020, 14890>>]

\* Stride::tomorrow
tomorrow(prayer_date) == prayer_date + SecondsPerDay

\* SolarTime::new(date, coordinates): transit, sunrise and sunset of the day.
SolarTime(prayer_date, coords) ==
    LET day == prayer_date \div SecondsPerDay
        a == Almanac(coords.latitude)
    IN [date |-> prayer_date,
        latitude |-> coords.latitude,
        transit |-> prayer_date + a.transit + day * a.transit_drift,
        sunrise |-> prayer_date + a.sunrise + day * a.rise_drift,
        sunset |-> prayer_date + a.sunset + day * a.set_drift]

\* SolarTime::time_for_solar_angle(angle, after_transit): the instant the sun
\* stands at `angle` (tenths of a degree; negative below the horizon) before
\* or after the transit.  Sunrise and sunset are the crossings of -0.8 degrees.
time_for_solar_angle(solar_time, angle, after_transit) ==
    LET offset == TruncDiv((-angle - 8) * Almanac(solar_time.latitude).per_degree, 10)
    IN IF after_transit THEN solar_time.sunset + offset
                        ELSE solar_time.sunrise - offset

\* SolarTime::afternoon(shadow_length)
afternoon(solar_time, shadow_length) ==
    solar_time.transit + Almanac(solar_time.latitude).asr[shadow_length]

\* ops::season_adjusted_morning_twilight(latitude, day_of_year, year, sunrise)
season_adjusted_morning_twilight(latitude, day_of_year, sunrise) ==
    sunrise - (75 * SecondsPerMinute + (1719 * Abs(latitude)) \div 55 + 11 * day_of_year)

\* ops::season_adjusted_evening_twilight(latitude, day_of_year, year, sunset, twilight)
season_adjusted_evening_twilight(latitude, day_of_year, sunset, twilight) ==
    CASE twilight = "General" ->
            sunset + (75 * SecondsPerMinute + (1536 * Abs(latitude)) \div 55 + 11 * day_of_year)
      [] twilight = "Red" ->
            sunset + (62 * SecondsPerMinute + (1044 * Abs(latitude)) \div 55 + 7 * day_of_year)
      [] twilight = "White" ->
            sunset + (81 * SecondsPerMinute + (1536 * Abs(latitude)) \div 55 + 13 * day_of_year)

\* Stride::adjust_time / ops::adjust_time: shift by whole minutes.
adjust_time(t, minutes) == t + minutes * SecondsPerMinute

\* Stride::rounded_minute with Ceil always moving to the following minute.
rounded_minute_following(t, rounding) ==
    LET seconds == t % SecondsPerMinute IN
    CASE rounding = "Nearest" ->
            IF 2 * seconds >= SecondsPerMinute THEN t + (SecondsPerMinute - seconds)
                                               ELSE t - seconds
      [] rounding = "Ceil" -> t + (SecondsPerMinute - seconds)
      [] rounding = "None" -> t

\* Stride::rounded_minute (specification 4.4): snap to the nearest minute,
\* round up to a whole minute, or leave the instant as it is.
rounded_minute(t, rounding) ==
    LET seconds == t % SecondsPerMinute IN
    CASE rounding = "Nearest" ->
            IF 2 * seconds >= SecondsPerMinute THEN t + (SecondsPerMinute - seconds)
                                               ELSE t - seconds
      [] rounding = "Ceil" ->
            IF seconds = 0 THEN t ELSE t + (SecondsPerMinute - seconds)
      [] rounding = "None" -> t

\* DateTime::ordinal of a UTC midnight: the day of the year, date 0 being day 1.
ordinal(prayer_date) == prayer_date \div SecondsPerDay + 1

(***************************************************************************)
(* PrayerTimes (src/src/schedule.rs).                                      *)
(***************************************************************************)
\* The 55.0 of the moonsighting-committee special case.
HighLatitude == 55

\* calculate_fajr, lines 177-188: the raw estimate.
fajr_raw(parameters, solar_time, night, coords) ==
    IF parameters.is_moonsighting_committee /\ coords.latitude >= HighLatitude
    THEN solar_time.sunrise - TruncDiv(night, 7)
    ELSE time_for_solar_angle(solar_time, -parameters.fajr_angle, FALSE)

\* calculate_fajr, lines 190-206: the safety bound.
safe_fajr(parameters, solar_time, night, coords, prayer_date) ==
    IF parameters.is_moonsighting_committee
    THEN season_adjusted_morning_twilight(coords.latitude, ordinal(prayer_date),
                                          solar_time.sunrise)
    ELSE LET portion == night_portions(parameters)[1]
             night_fraction == TruncDiv(portion[1] * night, portion[2])
         IN solar_time.sunrise - night_fraction

\* calculate_fajr taking the earlier of the raw estimate and the bound.
calculate_fajr_earlier(parameters, solar_time, night, coords, prayer_date) ==
    LET raw == fajr_raw(parameters, solar_time, night, coords)
        safe == safe_fajr(parameters, solar_time, night, coords, prayer_date)
        fajr == IF raw < safe THEN raw ELSE safe
    IN adjust_time(fajr, time_adjustments(parameters, "Fajr"))

\* calculate_fajr, lines 208-214: the later of the two, adjusted.
calculate_fajr(parameters, solar_time, night, coords, prayer_date) ==
    LET raw == fajr_raw(parameters, solar_time, night, coords)
        safe == safe_fajr(parameters, solar_time, night, coords, prayer_date)
        fajr == IF raw < safe THEN safe ELSE raw
    IN adjust_time(fajr, time_adjustments(parameters, "Fajr"))

\* i32, the type of the interval of IshaaParameter::Interval.
I32Max == 2147483647
Word16 == 65536

\* `interval * 60` leaves the range of i32: a build with overflow checks
\* panics there, a build without them wraps.
mul_60_overflows(interval) ==
    interval > I32Max \div SecondsPerMinute \/ interval < -(I32Max \div SecondsPerMinute)

\* interval.wrapping_mul(60): the product modulo 2^32 as a signed 32-bit
\* number, computed on the two 16-bit halves of the interval.
wrapping_mul_60(interval) ==
    LET low_product == (interval % Word16) * SecondsPerMinute
        low16 == low_product % Word16
        high16 == ((interval \div Word16) * SecondsPerMinute + low_product \div Word16) % Word16
    IN (IF 2 * high16 >= Word16 THEN high16 - Word16 ELSE high16) * Word16 + low16

\* calculate_isha, lines 233-245: the raw estimate of an angle-based Ishaa.
isha_raw(parameters, solar_time, night, coords) ==
    IF parameters.is_moonsighting_committee /\ coords.latitude >= HighLatitude
    THEN solar_time.sunset + TruncDiv(night, 7)
    ELSE time_for_solar_angle(solar_time, -parameters.ishaa_parameter.value, TRUE)

\* calculate_isha, lines 247-265: the safety bound of an angle-based Ishaa.
safe_isha(parameters, solar_time, night, coords, prayer_date) ==
    IF parameters.is_moonsighting_committee
    THEN season_adjusted_evening_twilight(coords.latitude, ordinal(prayer_date),
                                          solar_time.sunset, parameters.twilight)
    ELSE LET portion == night_portions(parameters)[2]
             night_fraction == TruncDiv(portion[1] * night, portion[2])
         IN solar_time.sunset + night_fraction

\* calculate_isha taking the later of the raw estimate and the bound.
calculate_isha_later(parameters, solar_time, night, coords, prayer_date) ==
    LET ishaa ==
            IF parameters.ishaa_parameter.tag = "Interval"
            THEN solar_time.sunset + wrapping_mul_60(parameters.ishaa_parameter.value)
            ELSE LET raw == isha_raw(parameters, solar_time, night, coords)
                     safe == safe_isha(parameters, solar_time, night, coords, prayer_date)
                 IN IF raw > safe THEN raw ELSE safe
    IN adjust_time(ishaa, time_adjustments(parameters, "Ishaa"))

\* calculate_isha taking the interval for seconds.
calculate_isha_interval_seconds(parameters, solar_time, night, coords, prayer_date) ==
    LET ishaa ==
            IF parameters.ishaa_parameter.tag = "Interval"
            THEN solar_time.sunset + parameters.ishaa_parameter.value
            ELSE LET raw == isha_raw(parameters, solar_time, night, coords)
                     safe == safe_isha(parameters, solar_time, night, coords, prayer_date)
                 IN IF raw > safe THEN safe ELSE raw
    IN adjust_time(ishaa, time_adjustments(parameters, "Ishaa"))

\* calculate_isha, the instant it returns when it returns one; (interval * 60)
\* is a product of i32.
calculate_isha(parameters, solar_time, night, coords, prayer_date) ==
    LET ishaa ==
            IF parameters.ishaa_parameter.tag = "Interval"
            THEN solar_time.sunset + wrapping_mul_60(parameters.ishaa_parameter.value)
            ELSE LET raw == isha_raw(parameters, solar_time, night, coords)
                     safe == safe_isha(parameters, solar_time, night, coords, prayer_date)
                 IN IF raw > safe THEN safe ELSE raw
    IN adjust_time(ishaa, time_adjustments(parameters, "Ishaa"))

\* calculate_qiyam, lines 293-305, rounding up to the whole minute.
middle_and_last_third_ceil(current_maghrib, tomorrow_fajr) ==
    LET night_duration == tomorrow_fajr - current_maghrib
        middle_night_portion == TruncDiv(night_duration, 2)
        last_third_portion == TruncDiv(2 * night_duration, 3)
    IN <<rounded_minute(current_maghrib + middle_night_portion, "Ceil"),
         rounded_minute(current_maghrib + last_third_portion, "Ceil")>>

\* calculate_qiyam, lines 293-305: the middle of the night between Maghrib
\* and tomorrow's Fajr and the start of its last third, each to the nearest
\* minute.  (night_duration * (2.0 / 3.0)) as i64 equals the truncated
\* 2 * night_duration / 3: the f64 product of a multiple of 3 rounds to the
\* whole number.
middle_and_last_third(current_maghrib, tomorrow_fajr) ==
    LET night_duration == tomorrow_fajr - current_maghrib
        middle_night_portion == TruncDiv(night_duration, 2)
        last_third_portion == TruncDiv(2 * night_duration, 3)
    IN <<rounded_minute(current_maghrib + middle_night_portion, "Nearest"),
         rounded_minute(current_maghrib + last_third_portion, "Nearest")>>

\* calculate_qiyam rounding the two night instants by the configured policy.
calculate_qiyam_configured_rounding(current_maghrib, parameters, solar_time, coords, prayer_date) ==
    LET solar_time_tomorrow == SolarTime(tomorrow(prayer_date), coords)
        night == solar_time_tomorrow.sunrise - solar_time.sunset
        tomorrow_fajr == calculate_fajr(parameters, solar_time, night, coords, prayer_date)
        night_duration == tomorrow_fajr - current_maghrib
        middle_of_night ==
            rounded_minute(current_maghrib + TruncDiv(night_duration, 2), parameters.rounding)
        last_third_of_night ==
            rounded_minute(current_maghrib + TruncDiv(2 * night_duration, 3), parameters.rounding)
    IN <<middle_of_night, last_third_of_night, tomorrow_fajr>>

\* calculate_qiyam: <<middle of the night, last third, tomorrow's Fajr>>.
calculate_qiyam(current_maghrib, parameters, solar_time, coords, prayer_date) ==
    LET solar_time_tomorrow == SolarTime(tomorrow(prayer_date), coords)
        night == solar_time_tomorrow.sunrise - solar_time.sunset
        tomorrow_fajr == calculate_fajr(parameters, solar_time, night, coords, prayer_date)
        of_night == middle_and_last_third(current_maghrib, tomorrow_fajr)
    IN <<of_night[1], of_night[2], tomorrow_fajr>>

\* PrayerTimes::new(date, coordinates, parameters)
PrayerTimesNew(d, coords, parameters) ==
    LET prayer_date == d * SecondsPerDay
        solar_time == SolarTime(prayer_date, coords)
        solar_time_tomorrow == SolarTime(tomorrow(prayer_date), coords)
        asr == afternoon(solar_time, shadow(parameters.madhab))
        night == solar_time_tomorrow.sunrise - solar_time.sunset
        final_fajr ==
            rounded_minute(calculate_fajr(parameters, solar_time, night, coords, prayer_date),
                           parameters.rounding)
        final_sunrise ==
            rounded_minute(adjust_time(solar_time.sunrise, time_adjustments(parameters, "Sunrise")),
                           parameters.rounding)
        final_dhuhr ==
            rounded_minute(adjust_time(solar_time.transit, time_adjustments(parameters, "Dhuhr")),
                           parameters.rounding)
        final_asr ==
            rounded_minute(adjust_time(asr, time_adjustments(parameters, "Asr")),
                           parameters.rounding)
        final_maghrib ==
            rounded_minute(adjust_time(solar_time.sunset, time_adjustments(parameters, "Maghrib")),
                           parameters.rounding)
        final_isha ==
            rounded_minute(calculate_isha(parameters, solar_time, night, coords, prayer_date),
                           parameters.rounding)
        q == calculate_qiyam(final_maghrib, parameters, solar_time_tomorrow, coords,
                             tomorrow(prayer_date))
    IN [fajr |-> final_fajr,
        sunrise |-> final_sunrise,
        dhuhr |-> final_dhuhr,
        asr |-> final_asr,
        maghrib |-> final_maghrib,
        ishaa |-> final_isha,
        middle_of_the_night |-> q[1],
        qiyam |-> q[2],
        fajr_tomorrow |-> q[3],
        coordinates |-> coords,
        date |-> prayer_date,
        parameters |-> parameters]

\* PrayerTimes::time
time(self, prayer) ==
    CASE prayer = "Fajr" -> self.fajr
      [] prayer = "Sunrise" -> self.sunrise
      [] prayer = "Dhuhr" -> self.dhuhr
      [] prayer = "Asr" -> self.asr
      [] prayer = "Maghrib" -> self.maghrib
      [] prayer = "Ishaa" -> self.ishaa
      [] prayer = "Qiyam" -> self.qiyam
      [] prayer = "FajrTomorrow" -> self.fajr_tomorrow

(***************************************************************************)
(* The inputs the model draws from.                                        *)
(***************************************************************************)
Dates == 0..MaxDay

CoordinatesSet ==
    {[latitude |-> 35, longitude |-> -78],
     [latitude |-> 55, longitude |-> 10],
     [latitude |-> -60, longitude |-> -45]}

\* User-level adjustments: none, those of the Jakarta test, and an Ishaa
\* moved back by an hour and a half.
Adjustments ==
    {NoAdjustment,
     TimeAdjustment(-10, -2, 2, 1, 2, 4),
     TimeAdjustment(0, 0, 0, 0, 0, -90)}

\* Method-level adjustments: none, those of Method::MoonsightingCommittee,
\* and those of the Jakarta test.
MethodAdjustments ==
    {NoAdjustment,
     TimeAdjustment(0, 0, 5, 0, 3, 0),
     TimeAdjustment(-10, -2, 2, 1, 2, 4)}

FajrAngles == {150, 180, 185}
IshaaParameters == {Angle(150), Angle(180), Interval(90)}

ParametersSet ==
    [fajr_angle : FajrAngles,
     ishaa_parameter : IshaaParameters,
     is_moonsighting_committee : BOOLEAN,
     madhab : Mazhab,
     high_latitude_rule : HighLatitudeRule,
     adjustments : Adjustments,
     method_adjustments : MethodAdjustments,
     rounding : Rounding,
     twilight : Twilight]

\* The Parameters values that differ from `parameters` in one field.  A
\* builder that already holds parameters is given one of these: every value
\* of ParametersSet is still reached, one changed setting at a time.
OneFieldChanged(parameters) ==
    {[parameters EXCEPT !.fajr_angle = v] : v \in FajrAngles}
    \cup {[parameters EXCEPT !.ishaa_parameter = v] : v \in IshaaParameters}
    \cup {[parameters EXCEPT !.is_moonsighting_committee = v] : v \in BOOLEAN}
    \cup {[parameters EXCEPT !.madhab = v] : v \in Mazhab}
    \cup {[parameters EXCEPT !.high_latitude_rule = v] : v \in HighLatitudeRule}
    \cup {[parameters EXCEPT !.adjustments = v] : v \in Adjustments}
    \cup {[parameters EXCEPT !.method_adjustments = v] : v \in MethodAdjustments}
    \cup {[parameters EXCEPT !.rounding = v] : v \in Rounding}
    \cup {[parameters EXCEPT !.twilight = v] : v \in Twilight}

\* Parameters::default(): the fields a preset of Method::parameters leaves to
\* `..Default::default()`.
DefaultParameters ==
    [fajr_angle |-> 0,
     ishaa_parameter |-> Angle(0),
     is_moonsighting_committee |-> FALSE,
     madhab |-> "Shafi",
     high_latitude_rule |-> "MiddleOfTheNight",
     adjustments |-> NoAdjustment,
     method_adjustments |-> NoAdjustment,
     rounding |-> "Nearest",
     twilight |-> "General"]

Method == {"UmmAlQura", "MoonsightingCommittee"}

\* Method::parameters
method_parameters(method) ==
    CASE method = "UmmAlQura" ->
            [DefaultParameters EXCEPT !.fajr_angle = 185,
                                      !.ishaa_parameter = Interval(90)]
      [] method = "MoonsightingCommittee" ->
            [DefaultParameters EXCEPT !.fajr_angle = 180,
                                      !.ishaa_parameter = Angle(180),
                                      !.is_moonsighting_committee = TRUE,
                                      !.method_adjustments = TimeAdjustment(0, 0, 5, 0, 3, 0)]

(***************************************************************************)
(* PrayerSchedule, the builder (src/src/schedule.rs, lines 311-355).       *)
(***************************************************************************)
BuilderRef == [kind |-> "PrayerSchedule"]
Ok(v) == [kind |-> "Ok", value |-> v]
Err(msg) == [kind |-> "Err", message |-> msg]

NothingSupplied == [date |-> None, coordinates |-> None, params |-> None]

\* PrayerSchedule::new
New ==
    /\ date' = None
    /\ coordinates' = None
    /\ params' = None
    /\ supplied' = NothingSupplied
    /\ ret' = BuilderRef
    /\ UNCHANGED <<times, now, config>>

\* PrayerSchedule::on keeping the date it was given first.
on_keeps_first(d) ==
    /\ date' = IF is_some(date) THEN date ELSE Some(d)
    /\ supplied' = [supplied EXCEPT !.date = Some(d)]
    /\ ret' = BuilderRef
    /\ UNCHANGED <<coordinates, params, times, now, config>>

\* PrayerSchedule::on
on(d) ==
    /\ date' = Some(d)
    /\ supplied' = [supplied EXCEPT !.date = Some(d)]
    /\ ret' = BuilderRef
    /\ UNCHANGED <<coordinates, params, times, now, config>>

\* PrayerSchedule::for_location dropping the coordinates it was given.
for_location_forgets(location) ==
    /\ coordinates' = coordinates
    /\ supplied' = [supplied EXCEPT !.coordinates = Some(location)]
    /\ ret' = BuilderRef
    /\ UNCHANGED <<date, params, times, now, config>>

\* PrayerSchedule::for_location
for_location(location) ==
    /\ coordinates' = Some(location)
    /\ supplied' = [supplied EXCEPT !.coordinates = Some(location)]
    /\ ret' = BuilderRef
    /\ UNCHANGED <<date, params, times, now, config>>

\* PrayerSchedule::with_configuration
with_configuration(parameters) ==
    /\ params' = Some(parameters)
    /\ supplied' = [supplied EXCEPT !.params = Some(parameters)]
    /\ ret' = BuilderRef
    /\ UNCHANGED <<date, coordinates, times, now, config>>

\* The value PrayerSchedule::calculate returns.
calculate_result(d, coords, parameters) ==
    IF is_some(d) /\ is_some(coords) /\ is_some(parameters)
    THEN Ok(PrayerTimesNew(unwrap(d), unwrap(coords), unwrap(parameters)))
    ELSE Err("Required information is needed in order to calculate the prayer times.")

\* PrayerSchedule::calculate taking the date out of the builder.
calculate_taking_date ==
    /\ ret' = calculate_result(date, coordinates, params)
    /\ date' = None
    /\ UNCHANGED <<coordinates, params, supplied, times, now, config>>

\* PrayerSchedule::calculate
calculate ==
    /\ ret' = calculate_result(date, coordinates, params)
    /\ UNCHANGED <<date, coordinates, params, supplied, times, now, config>>

Init ==
    /\ date = None
    /\ coordinates = None
    /\ params = None
    /\ supplied = NothingSupplied
    /\ ret = BuilderRef
    /\ times = None
    /\ now = [secs |-> 0, frac |-> FALSE]
    /\ config = None

Next ==
    \/ New
    \/ \E d \in Dates : on(d)
    \/ \E location \in CoordinatesSet : for_location(location)
    \/ \E parameters \in (IF is_some(params) THEN OneFieldChanged(unwrap(params))
                                             ELSE ParametersSet) :
            with_configuration(parameters)
    \/ calculate

Spec == Init /\ [][Next]_vars

(***************************************************************************)
(* Looking a prayer up in a schedule (src/src/schedule.rs, lines 115-168). *)
(* An instant of the clock is a whole number of seconds and a flag telling *)
(* whether a fraction of a second, strictly between 0 and 1, has passed    *)
(* since.  The instants of a schedule are whole seconds.                   *)
(***************************************************************************)
ProbeMargin == 1

Instant(secs, frac) == [secs |-> secs, frac |-> frac]

\* p is strictly later than q.
Later(p, q) == p.secs > q.secs \/ (p.secs = q.secs /\ p.frac /\ ~q.frac)

\* prayer_time.signed_duration_since(time).num_seconds(): the whole seconds
\* of the difference, the fraction dropped towards zero.
num_seconds_since(prayer_time, probe) ==
    LET whole == prayer_time - probe.secs
    IN IF probe.frac /\ whole >= 1 THEN whole - 1 ELSE whole

\* PrayerTimes::current_time with the comparison of Dhuhr turned round.
current_time_dhuhr_reversed(self, probe) ==
    IF num_seconds_since(self.fajr_tomorrow, probe) <= 0 THEN Some("FajrTomorrow")
    ELSE IF num_seconds_since(self.qiyam, probe) <= 0 THEN Some("Qiyam")
    ELSE IF num_seconds_since(self.ishaa, probe) <= 0 THEN Some("Ishaa")
    ELSE IF num_seconds_since(self.maghrib, probe) <= 0 THEN Some("Maghrib")
    ELSE IF num_seconds_since(self.asr, probe) <= 0 THEN Some("Asr")
    ELSE IF num_seconds_since(self.dhuhr, probe) >= 0 THEN Some("Dhuhr")
    ELSE IF num_seconds_since(self.sunrise, probe) <= 0 THEN Some("Sunrise")
    ELSE IF num_seconds_since(self.fajr, probe) <= 0 THEN Some("Fajr")
    ELSE None

\* PrayerTimes::current_time
current_time(self, probe) ==
    IF num_seconds_since(self.fajr_tomorrow, probe) <= 0 THEN Some("FajrTomorrow")
    ELSE IF num_seconds_since(self.qiyam, probe) <= 0 THEN Some("Qiyam")
    ELSE IF num_seconds_since(self.ishaa, probe) <= 0 THEN Some("Ishaa")
    ELSE IF num_seconds_since(self.maghrib, probe) <= 0 THEN Some("Maghrib")
    ELSE IF num_seconds_since(self.asr, probe) <= 0 THEN Some("Asr")
    ELSE IF num_seconds_since(self.dhuhr, probe) <= 0 THEN Some("Dhuhr")
    ELSE IF num_seconds_since(self.sunrise, probe) <= 0 THEN Some("Sunrise")
    ELSE IF num_seconds_since(self.fajr, probe) <= 0 THEN Some("Fajr")
    ELSE None

\* The match of PrayerTimes::next with the successor of FajrTomorrow wrapping
\* back to Fajr.
next_prayer_wrapping(current_prayer) ==
    CASE current_prayer = "Fajr" -> "Sunrise"
      [] current_prayer = "Sunrise" -> "Dhuhr"
      [] current_prayer = "Dhuhr" -> "Asr"
      [] current_prayer = "Asr" -> "Maghrib"
      [] current_prayer = "Maghrib" -> "Ishaa"
      [] current_prayer = "Ishaa" -> "Qiyam"
      [] current_prayer = "Qiyam" -> "FajrTomorrow"
      [] OTHER -> "Fajr"

\* The match of PrayerTimes::next with Ishaa followed by Ishaa.
next_prayer_staying(current_prayer) ==
    CASE current_prayer = "Fajr" -> "Sunrise"
      [] current_prayer = "Sunrise" -> "Dhuhr"
      [] current_prayer = "Dhuhr" -> "Asr"
      [] current_prayer = "Asr" -> "Maghrib"
      [] current_prayer = "Maghrib" -> "Ishaa"
      [] current_prayer = "Ishaa" -> "Ishaa"
      [] current_prayer = "Qiyam" -> "FajrTomorrow"
      [] OTHER -> "FajrTomorrow"

\* The match of PrayerTimes::next.
next_prayer(current_prayer) ==
    CASE current_prayer = "Fajr" -> "Sunrise"
      [] current_prayer = "Sunrise" -> "Dhuhr"
      [] current_prayer = "Dhuhr" -> "Asr"
      [] current_prayer = "Asr" -> "Maghrib"
      [] current_prayer = "Maghrib" -> "Ishaa"
      [] current_prayer = "Ishaa" -> "Qiyam"
      [] current_prayer = "Qiyam" -> "FajrTomorrow"
      [] OTHER -> "FajrTomorrow"

\* What a call returned, with the reading of the clock it worked on.
Answer(call, probe, v) == [kind |-> "Answer", call |-> call, time |-> probe, value |-> v]
Panic(call, probe, msg) == [kind |-> "Panic", call |-> call, time |-> probe, message |-> msg]

\* No call has returned since the clock last moved.
NoCall == [kind |-> "NoCall"]

\* The clock (Utc::now) moves on; what the last call returned belongs to an
\* instant that has passed.
advance(probe) ==
    /\ Later(probe, now)
    /\ now' = probe
    /\ ret' = NoCall
    /\ UNCHANGED <<date, coordinates, params, supplied, times, config>>

\* current_time(time) called on the schedule with the instant of the clock.
CurrentTime ==
    /\ ret' = Answer("current_time", now, current_time(unwrap(times), now))
    /\ UNCHANGED <<date, coordinates, params, supplied, times, now, config>>

\* PrayerTimes::current
current ==
    /\ LET current_prayer == current_time(unwrap(times), now)
       IN ret' = IF is_some(current_prayer)
                 THEN Answer("current", now, unwrap(current_prayer))
                 ELSE Panic("current", now, "Out of bounds")
    /\ UNCHANGED <<date, coordinates, params, supplied, times, now, config>>

\* What a call that takes an argument and reads no clock returned.
Gives(call, arg, v) == [kind |-> "Answer", call |-> call, arg |-> arg, value |-> v]

\* What a call that takes an argument and reads the clock returned.
AnswerFor(call, arg, probe, v) ==
    [kind |-> "Answer", call |-> call, arg |-> arg, time |-> probe, value |-> v]

\* PrayerTimes::time
Time(prayer) ==
    /\ ret' = Gives("time", prayer, time(unwrap(times), prayer))
    /\ UNCHANGED <<date, coordinates, params, supplied, times, now, config>>

\* PrayerTimes::next keeping the schedule of the following day in self: the
\* stored Fajr becomes tomorrow's.
next_moving_schedule ==
    /\ LET current_prayer == current_time(unwrap(times), now)
       IN ret' = IF is_some(current_prayer)
                 THEN Answer("next", now, next_prayer(unwrap(current_prayer)))
                 ELSE Panic("next", now, "Out of bounds")
    /\ times' = Some([unwrap(times) EXCEPT !.fajr = unwrap(times).fajr_tomorrow])
    /\ UNCHANGED <<date, coordinates, params, supplied, now, config>>

\* PrayerTimes::next
next ==
    /\ LET current_prayer == current_time(unwrap(times), now)
       IN ret' = IF is_some(current_prayer)
                 THEN Answer("next", now, next_prayer(unwrap(current_prayer)))
                 ELSE Panic("next", now, "Out of bounds")
    /\ UNCHANGED <<date, coordinates, params, supplied, times, now, config>>

SecondsPerHour == 60 * SecondsPerMinute

\* (hours, minutes) of time_remaining for a difference of now_to_next whole
\* seconds.  `as u32` takes a negative value to 0.  whole.trunc() is the whole
\* hours; (fract * 60.0).round() is the rest in minutes, rounded to the
\* nearest, which may be 60.  When the rest lies exactly half-way between two
\* minutes, the f64 product falls on either side of the half, so both minutes
\* are outcomes.
hours_and_minutes(now_to_next) ==
    IF now_to_next <= 0 THEN {<<0, 0>>}
    ELSE LET hours == now_to_next \div SecondsPerHour
             rest == now_to_next % SecondsPerHour
             down == rest \div SecondsPerMinute
         IN CASE rest % SecondsPerMinute < 30 -> {<<hours, down>>}
              [] rest % SecondsPerMinute > 30 -> {<<hours, down + 1>>}
              [] OTHER -> {<<hours, down>>, <<hours, down + 1>>}

\* PrayerTimes::time_remaining: next() reads the clock, then Utc::now() is
\* read again, at `later`.  The answer is kept with the prayer next() gave.
time_remaining(later) ==
    /\ later = now \/ Later(later, now)
    /\ LET current_prayer == current_time(unwrap(times), now)
       IN IF is_some(current_prayer)
          THEN LET next_one == next_prayer(unwrap(current_prayer))
                   next_time == time(unwrap(times), next_one)
                   now_to_next == num_seconds_since(next_time, later)
               IN /\ \E remaining \in hours_and_minutes(now_to_next) :
                        ret' = AnswerFor("time_remaining", next_one, later, remaining)
                  /\ now' = later
          ELSE /\ ret' = Panic("time_remaining", now, "Out of bounds")
               /\ now' = now
    /\ UNCHANGED <<date, coordinates, params, supplied, times, config>>

\* chrono's Weekday of an instant; the day of date 0 is a Thursday, as the
\* day of the epoch is.
Weekday == <<"Mon", "Tue", "Wed", "Thu", "Fri", "Sat", "Sun">>
weekday(instant) == Weekday[(((instant.secs \div SecondsPerDay) + 3) % 7) + 1]

\* impl Debug for Prayer: the name written, `today` being Utc::now().weekday()
Debug_fmt(prayer, today) ==
    CASE prayer \in {"Fajr", "FajrTomorrow"} -> "Fajr"
      [] prayer = "Dhuhr" -> IF today = "Fri" THEN "Jumua" ELSE "Dhuhr"
      [] OTHER -> prayer

\* format!("{:?}", prayer)
fmt(prayer) ==
    /\ ret' = AnswerFor("fmt", prayer, now, Debug_fmt(prayer, weekday(now)))
    /\ UNCHANGED <<date, coordinates, params, supplied, times, now, config>>

\* PrayerTimes::new taking today's date from the clock, as the examples do
\* before they call it.
new_again_today ==
    /\ ret' = Gives("new", <<unwrap(date), unwrap(coordinates), unwrap(params)>>,
                    PrayerTimesNew(now.secs \div SecondsPerDay, unwrap(coordinates),
                                   unwrap(params)))
    /\ UNCHANGED <<date, coordinates, params, supplied, times, now, config>>

\* PrayerTimes::new called once more with the arguments of the first call.
new_again ==
    /\ ret' = Gives("new", <<unwrap(date), unwrap(coordinates), unwrap(params)>>,
                    PrayerTimesNew(unwrap(date), unwrap(coordinates), unwrap(params)))
    /\ UNCHANGED <<date, coordinates, params, supplied, times, now, config>>

\* The schedules looked into: every place and rounding, with and without the
\* adjustment that moves Ishaa before Maghrib.
LookupParameters ==
    {parameters \in ParametersSet :
        /\ parameters.fajr_angle = 180
        /\ parameters.ishaa_parameter = Angle(180)
        /\ ~parameters.is_moonsighting_committee
        /\ parameters.madhab = "Shafi"
        /\ parameters.high_latitude_rule = "MiddleOfTheNight"
        /\ parameters.adjustments \in {NoAdjustment, TimeAdjustment(0, 0, 0, 0, 0, -90)}
        /\ parameters.method_adjustments = NoAdjustment
        /\ parameters.twilight = "General"}

\* The instants the clock is read at: around each instant of the schedule,
\* and a little less than an hour before each.
Probes(self) ==
    {Instant(time(self, prayer) + k, frac) :
        prayer \in PrayerSet, k \in (-ProbeMargin)..ProbeMargin, frac \in BOOLEAN}
    \cup {Instant(time(self, prayer) - SecondsPerHour + k, FALSE) :
            prayer \in PrayerSet, k \in 1..ProbeMargin}

InitLookup ==
    \E d \in {0}, location \in CoordinatesSet, parameters \in LookupParameters :
        /\ date = Some(d)
        /\ coordinates = Some(location)
        /\ params = Some(parameters)
        /\ supplied = [date |-> Some(d), coordinates |-> Some(location),
                       params |-> Some(parameters)]
        /\ ret = calculate_result(date, coordinates, params)
        /\ times = Some(PrayerTimesNew(d, location, parameters))
        /\ now \in Probes(unwrap(times))
        /\ config = None

NextLookup ==
    \/ \E probe \in Probes(unwrap(times)) : advance(probe)
    \/ CurrentTime
    \/ current
    \/ next
    \/ \E prayer \in PrayerSet : Time(prayer)
    \/ \E later \in Probes(unwrap(times)) : time_remaining(later)
    \/ \E prayer \in PrayerSet : fmt(prayer)
    \/ new_again

SpecLookup == InitLookup /\ [][NextLookup]_vars

(***************************************************************************)
(* Configuration, the builder of Parameters, and Parameters as declared in *)
(* src/src/models/parameters.rs (with the fields ishaa_angle and           *)
(* ishaa_interval); DateDto of src/azan_core/src/parser/dtos.rs.           *)
(***************************************************************************)
\* Method as parameters.rs names it: Method::Other besides the presets.
ConfigurationMethod == Method \cup {"Other"}

\* Parameters::new(fajr_angle, ishaa_angle); Configuration::new sets the same
\* fields to the same values.
ParametersNew(fajr_angle, ishaa_angle_) ==
    [method |-> "Other",
     fajr_angle |-> fajr_angle,
     maghrib_angle |-> 0,
     ishaa_angle |-> ishaa_angle_,
     ishaa_interval |-> 0,
     madhab |-> "Shafi",
     high_latitude_rule |-> "MiddleOfTheNight",
     adjustments |-> NoAdjustment,
     method_adjustments |-> NoAdjustment,
     rounding |-> "Nearest",
     twilight |-> "General"]

\* Configuration::with returning the preset as Method::parameters gives it.
with_preset_only(method_, madhab_) == method_parameters(method_)

\* Configuration::with (the value it returns)
with(method_, madhab_) == [method_parameters(method_) EXCEPT !.madhab = madhab_]

\* What a call of this part returned, with its arguments.
Returns(call, args, v) == [kind |-> "Return", call |-> call, args |-> args, value |-> v]
Aborts(call, args) == [kind |-> "Panic", call |-> call, args |-> args]
ConfigurationRef == [kind |-> "Configuration"]

\* Nothing recorded yet of the setters of a Configuration.
NoInterval == [ishaa_interval |-> None]

\* Configuration::new
Configuration_new(fajr_angle, ishaa_angle_) ==
    /\ config' = Some(ParametersNew(fajr_angle, ishaa_angle_))
    /\ supplied' = NoInterval
    /\ ret' = ConfigurationRef
    /\ UNCHANGED <<date, coordinates, params, times, now>>

\* A setter that stores one field and returns the builder.
Stores(updated) ==
    /\ is_some(config)
    /\ config' = Some(updated)
    /\ ret' = ConfigurationRef
    /\ UNCHANGED <<date, coordinates, params, times, now>>

\* Configuration::method
Configuration_method(v) ==
    /\ Stores([unwrap(config) EXCEPT !.method = v])
    /\ UNCHANGED supplied

\* Configuration::method_adjustments
Configuration_method_adjustments(v) ==
    /\ Stores([unwrap(config) EXCEPT !.method_adjustments = v])
    /\ UNCHANGED supplied

\* Configuration::high_latitude_rule
Configuration_high_latitude_rule(v) ==
    /\ Stores([unwrap(config) EXCEPT !.high_latitude_rule = v])
    /\ UNCHANGED supplied

\* Configuration::madhab
Configuration_madhab(v) ==
    /\ Stores([unwrap(config) EXCEPT !.madhab = v])
    /\ UNCHANGED supplied

\* Configuration::ishaa_interval
Configuration_ishaa_interval(v) ==
    /\ Stores([unwrap(config) EXCEPT !.ishaa_angle = 0, !.ishaa_interval = v])
    /\ supplied' = [supplied EXCEPT !.ishaa_interval = Some(v)]

\* Configuration::maghrib_angle
Configuration_maghrib_angle(v) ==
    /\ Stores([unwrap(config) EXCEPT !.maghrib_angle = v])
    /\ UNCHANGED supplied

\* Configuration::rounding
Configuration_rounding(v) ==
    /\ Stores([unwrap(config) EXCEPT !.rounding = v])
    /\ UNCHANGED supplied

\* Configuration::twilight
Configuration_twilight(v) ==
    /\ Stores([unwrap(config) EXCEPT !.twilight = v])
    /\ UNCHANGED supplied

\* Configuration::done
Configuration_done ==
    /\ is_some(config)
    /\ ret' = Returns("done", <<>>, unwrap(config))
    /\ UNCHANGED <<date, coordinates, params, supplied, times, now, config>>

\* Configuration::with
Configuration_with(method_, madhab_) ==
    /\ ret' = Returns("with", <<method_, madhab_>>, with(method_, madhab_))
    /\ UNCHANGED <<date, coordinates, params, supplied, times, now, config>>

\* A Parameters value written by the caller as a struct literal: every field
\* of Parameters is `pub`.
ParametersLiteral(parameters) ==
    /\ ret' = Returns("Parameters", <<>>, parameters)
    /\ UNCHANGED <<date, coordinates, params, supplied, times, now, config>>

\* Parameters::night_portions called on the Parameters value just obtained.
NightPortions ==
    /\ ret.kind = "Return"
    /\ ret.call \in {"done", "with", "Parameters"}
    /\ ret' = Returns("night_portions", ret.value, night_portions(ret.value))
    /\ UNCHANGED <<date, coordinates, params, supplied, times, now, config>>

\* The Gregorian calendar of chrono, against which with_ymd_and_hms checks.
IsLeapYear(year) == (year % 4 = 0 /\ year % 100 # 0) \/ year % 400 = 0

DaysInMonth(year, month) ==
    CASE month \in {1, 3, 5, 7, 8, 10, 12} -> 31
      [] month \in {4, 6, 9, 11} -> 30
      [] month = 2 -> IF IsLeapYear(year) THEN 29 ELSE 28
      [] OTHER -> 0

DateDto(year, month, day) == [year |-> year, month |-> month, day |-> day]

\* Utc.with_ymd_and_hms(year, month, day, 0, 0, 0): the midnight of a date of
\* the calendar, none for any other triple.
with_ymd_and_hms(year, month, day) ==
    IF month \in 1..12 /\ day \in 1..DaysInMonth(year, month)
    THEN Some([year |-> year, month |-> month, day |-> day,
               hour |-> 0, minute |-> 0, second |-> 0])
    ELSE None

\* DateDto::to_utc_date bringing the day back into the month.
to_utc_date_clamping(self) ==
    LET month == IF self.month < 1 THEN 1 ELSE IF self.month > 12 THEN 12 ELSE self.month
        last == DaysInMonth(self.year, month)
        day == IF self.day < 1 THEN 1 ELSE IF self.day > last THEN last ELSE self.day
    IN Returns("to_utc_date", self, unwrap(with_ymd_and_hms(self.year, month, day)))

\* DateDto::to_utc_date (what the call gives: a value, or the abort of unwrap)
to_utc_date(self) ==
    LET midnight == with_ymd_and_hms(self.year, self.month, self.day)
    IN IF is_some(midnight)
       THEN Returns("to_utc_date", self, unwrap(midnight))
       ELSE Aborts("to_utc_date", self)

\* DateDto::to_utc_date
ToUtcDate(self) ==
    /\ ret' = to_utc_date(self)
    /\ UNCHANGED <<date, coordinates, params, supplied, times, now, config>>

\* The values the setters are given.
ConfigurationAngles == {150}
IshaaIntervals == {90, 120}
MaghribAngles == {0, 45}
ConfigurationRoundings == {"Ceil"}
ConfigurationTwilights == {"Red"}
ConfigurationAdjustments == {NoAdjustment, TimeAdjustment(0, 0, 5, 0, 3, 0)}

\* Struct literals: both dusk fields free, under every high-latitude rule.
ParametersLiterals ==
    {[ParametersNew(180, a) EXCEPT !.ishaa_interval = n, !.high_latitude_rule = rule] :
        a \in {0, 180}, n \in {0, 90}, rule \in HighLatitudeRule}

\* Dates as a caller may write them, valid or not.
DateDtos ==
    {DateDto(year, month, day) :
        year \in {2023, 2024}, month \in {0, 2, 4, 12, 13}, day \in {0, 28, 29, 30, 31, 32}}

InitConfiguration ==
    /\ date = None
    /\ coordinates = None
    /\ params = None
    /\ supplied = NoInterval
    /\ ret = ConfigurationRef
    /\ times = None
    /\ now = [secs |-> 0, frac |-> FALSE]
    /\ config = None

NextConfiguration ==
    \/ \E fajr_angle \in {180}, a \in ConfigurationAngles : Configuration_new(fajr_angle, a)
    \/ \E v \in {"Other", "UmmAlQura"} : Configuration_method(v)
    \/ \E v \in ConfigurationAdjustments : Configuration_method_adjustments(v)
    \/ \E v \in HighLatitudeRule : Configuration_high_latitude_rule(v)
    \/ \E v \in Mazhab : Configuration_madhab(v)
    \/ \E v \in IshaaIntervals : Configuration_ishaa_interval(v)
    \/ \E v \in MaghribAngles : Configuration_maghrib_angle(v)
    \/ \E v \in ConfigurationRoundings : Configuration_rounding(v)
    \/ \E v \in ConfigurationTwilights : Configuration_twilight(v)
    \/ Configuration_done
    \/ \E method_ \in Method, madhab_ \in Mazhab : Configuration_with(method_, madhab_)
    \/ \E parameters \in ParametersLiterals : ParametersLiteral(parameters)
    \/ NightPortions
    \/ \E dto \in DateDtos : ToUtcDate(dto)

SpecConfiguration == InitConfiguration /\ [][NextConfiguration]_vars

(***************************************************************************)
(* calculate_isha on its own (src/src/schedule.rs, lines 216-276), over    *)
(* intervals from the whole range of i32.                                  *)
(***************************************************************************)
\* Intervals: small ones of either sign, a large one whose product by 60 is
\* still an i32, and two whose product is not.
WideIntervals == {-90, 0, 1, 90, 35000000, 35791395, 40000000}

IshaParameters ==
    {[DefaultParameters EXCEPT !.fajr_angle = 180,
                               !.ishaa_parameter = ishaa_parameter,
                               !.is_moonsighting_committee = flag,
                               !.high_latitude_rule = rule,
                               !.adjustments = adjustments] :
        ishaa_parameter \in {Interval(n) : n \in WideIntervals} \cup {Angle(180)},
        flag \in BOOLEAN, rule \in HighLatitudeRule,
        adjustments \in {NoAdjustment, TimeAdjustment(-10, -2, 2, 1, 2, 4)}}

\* What calculate_isha does for the given day, place and parameters: the
\* instant, or the panic of the overflow check where the build has one.
calculate_isha_outcomes(d, coords, parameters) ==
    LET prayer_date == d * SecondsPerDay
        solar_time == SolarTime(prayer_date, coords)
        night == SolarTime(tomorrow(prayer_date), coords).sunrise - solar_time.sunset
        args == [date |-> prayer_date, coordinates |-> coords, parameters |-> parameters]
        overflow == /\ parameters.ishaa_parameter.tag = "Interval"
                    /\ mul_60_overflows(parameters.ishaa_parameter.value)
    IN {Returns("calculate_isha", args,
                calculate_isha(parameters, solar_time, night, coords, prayer_date))}
       \cup (IF overflow THEN {Aborts("calculate_isha", args)} ELSE {})

\* PrayerTimes::calculate_isha, called by PrayerTimes::new
CalculateIsha(d, coords, parameters) ==
    /\ ret' \in calculate_isha_outcomes(d, coords, parameters)
    /\ UNCHANGED <<date, coordinates, params, supplied, times, now, config>>

InitIsha ==
    /\ date = None
    /\ coordinates = None
    /\ params = None
    /\ supplied = NothingSupplied
    /\ ret = NoCall
    /\ times = None
    /\ now = [secs |-> 0, frac |-> FALSE]
    /\ config = None

NextIsha ==
    \E d \in Dates, coords \in CoordinatesSet, parameters \in IshaParameters :
        CalculateIsha(d, coords, parameters)

SpecIsha == InitIsha /\ [][NextIsha]_vars

(***************************************************************************)
(* The night arithmetic of calculate_qiyam on its own (src/src/schedule.rs,*)
(* lines 293-305), for nights around two minutes long.                     *)
(***************************************************************************)
\* Maghrib is a whole minute when rounded and carries seconds when not.
MaghribSeconds == 0..59
MaxNight == 200
NightDurations == 0..MaxNight

\* The two night instants calculate_qiyam derives from the Maghrib and the
\* tomorrow's Fajr it was given.
MiddleAndLastThird ==
    /\ ret = NoCall
    /\ ret' = Returns("calculate_qiyam", supplied,
                      middle_and_last_third(supplied.current_maghrib, supplied.tomorrow_fajr))
    /\ UNCHANGED <<date, coordinates, params, supplied, times, now, config>>

InitNight ==
    /\ date = None
    /\ coordinates = None
    /\ params = None
    /\ \E current_maghrib \in MaghribSeconds, night_duration \in NightDurations :
          supplied = [current_maghrib |-> current_maghrib,
                      tomorrow_fajr |-> current_maghrib + night_duration]
    /\ ret = NoCall
    /\ times = None
    /\ now = [secs |-> 0, frac |-> FALSE]
    /\ config = None

NextNight == MiddleAndLastThird

SpecNight == InitNight /\ [][NextNight]_vars

(***************************************************************************)
(* What the claims speak about: the schedule a successful calculate()      *)
(* returned, and the quantities PrayerTimes::new derived on the way.       *)
(***************************************************************************)
Returned == ret.kind = "Ok"
Schedule == ret.value

SolarOf(schedule) == SolarTime(schedule.date, schedule.coordinates)
NightOf(schedule) ==
    SolarTime(tomorrow(schedule.date), schedule.coordinates).sunrise - SolarOf(schedule).sunset
AngleBased(schedule) == schedule.parameters.ishaa_parameter.tag = "Angle"

\* The safety bounds of the schedule's own day.
FajrBound(schedule) ==
    safe_fajr(schedule.parameters, SolarOf(schedule), NightOf(schedule),
              schedule.coordinates, schedule.date)
IshaaBound(schedule) ==
    safe_isha(schedule.parameters, SolarOf(schedule), NightOf(schedule),
              schedule.coordinates, schedule.date)

\* The raw estimates of the schedule's own day.
FajrRaw(schedule) ==
    fajr_raw(schedule.parameters, SolarOf(schedule), NightOf(schedule), schedule.coordinates)
IshaaRaw(schedule) ==
    isha_raw(schedule.parameters, SolarOf(schedule), NightOf(schedule), schedule.coordinates)

WholeMinute(t) == t % 60 = 0

AllSupplied ==
    /\ supplied.date # None
    /\ supplied.coordinates # None
    /\ supplied.params # None

(***************************************************************************)
(* C1.  The eight instants of every schedule are strictly increasing:      *)
(* Fajr < Sunrise < Dhuhr < Asr < Maghrib < Ishaa < Qiyam < FajrTomorrow,  *)
(* whatever the rounding, the adjustments and the dusk specification.      *)
(***************************************************************************)
C1_StrictlyIncreasing ==
    Returned =>
        \A i \in 1..(Len(Prayer) - 1) :
            time(Schedule, Prayer[i]) < time(Schedule, Prayer[i + 1])

(***************************************************************************)
(* C2 as claimed.  The reported Fajr is never earlier than its safety      *)
(* bound and the reported angle-based Ishaa never later than its own.      *)
(***************************************************************************)
C2_ReportedWithinBound ==
    Returned =>
        /\ time(Schedule, "Fajr") >= FajrBound(Schedule)
        /\ AngleBased(Schedule) => time(Schedule, "Ishaa") <= IshaaBound(Schedule)

(***************************************************************************)
(* C2 as amended.  The reported Fajr is never earlier than its safety      *)
(* bound moved by the Fajr adjustment and rounded by the configured        *)
(* policy, and the reported angle-based Ishaa is never later than its      *)
(* safety bound moved by the Ishaa adjustment and rounded likewise.        *)
(***************************************************************************)
C2_WithinAdjustedBound ==
    Returned =>
        LET p == Schedule.parameters IN
        /\ time(Schedule, "Fajr") >=
              rounded_minute(adjust_time(FajrBound(Schedule), time_adjustments(p, "Fajr")),
                             p.rounding)
        /\ AngleBased(Schedule) =>
              time(Schedule, "Ishaa") <=
                  rounded_minute(adjust_time(IshaaBound(Schedule), time_adjustments(p, "Ishaa")),
                                 p.rounding)

\* C2: a schedule whose Fajr and whose Ishaa are both decided by the bound
\* (the raw estimates lie on the wrong side of it), with a negative Fajr
\* adjustment.
C2_Witness ==
    /\ Returned
    /\ AngleBased(Schedule)
    /\ FajrRaw(Schedule) < FajrBound(Schedule)
    /\ IshaaRaw(Schedule) > IshaaBound(Schedule)
    /\ time_adjustments(Schedule.parameters, "Fajr") < 0
    /\ time(Schedule, "Fajr") < FajrBound(Schedule)

(***************************************************************************)
(* C3.  With the moonsighting-committee flag set and |latitude| >= 55 the  *)
(* raw Fajr is sunrise - night/7 and the raw angle-based Ishaa is          *)
(* sunset + night/7; otherwise the raw estimates are the depression-angle  *)
(* instants.                                                               *)
(***************************************************************************)
C3_HighLatitudeOverride ==
    Returned =>
        LET p == Schedule.parameters
            solar_time == SolarOf(Schedule)
            seventh == TruncDiv(NightOf(Schedule), 7)
        IN IF p.is_moonsighting_committee /\ Abs(Schedule.coordinates.latitude) >= 55
           THEN /\ FajrRaw(Schedule) = solar_time.sunrise - seventh
                /\ AngleBased(Schedule) => IshaaRaw(Schedule) = solar_time.sunset + seventh
           ELSE /\ FajrRaw(Schedule) = time_for_solar_angle(solar_time, -p.fajr_angle, FALSE)
                /\ AngleBased(Schedule) =>
                      IshaaRaw(Schedule) =
                          time_for_solar_angle(solar_time, -p.ishaa_parameter.value, TRUE)

(***************************************************************************)
(* C6.  calculate() returns Err, with a message and no schedule, exactly   *)
(* when one of date, coordinates and parameters was never supplied, and    *)
(* Ok with a schedule otherwise.                                           *)
(***************************************************************************)
C6_ErrIffMissing ==
    ret.kind \in {"Ok", "Err"} =>
        /\ ret.kind = "Err" <=> ~AllSupplied
        /\ ret.kind = "Err" => DOMAIN ret = {"kind", "message"} /\ ret.message # ""
        /\ ret.kind = "Ok" => DOMAIN ret = {"kind", "value"}

\* C6: the builder of the failure test: a date and parameters but no place.
C6_Witness ==
    /\ ret.kind = "Err"
    /\ supplied.date # None
    /\ supplied.params # None
    /\ supplied.coordinates = None

(***************************************************************************)
(* C7.  With all three supplied, calculate() returns the schedule          *)
(* PrayerTimes::new gives for the date, coordinates and parameters         *)
(* supplied last.                                                          *)
(***************************************************************************)
C7_BuilderAgreesWithNew ==
    Returned =>
        /\ AllSupplied
        /\ Schedule = PrayerTimesNew(unwrap(supplied.date), unwrap(supplied.coordinates),
                                     unwrap(supplied.params))

\* C7: a schedule returned for the last date and a moonsighting configuration.
C7_Witness ==
    /\ Returned
    /\ supplied.date = Some(MaxDay)
    /\ unwrap(supplied.params).is_moonsighting_committee
    /\ Schedule.date = MaxDay * SecondsPerDay

(***************************************************************************)
(* C8.  For Fajr, Sunrise, Dhuhr, Asr, Maghrib and Ishaa, under every      *)
(* rounding policy, the instant computed with user-level adjustment u and  *)
(* method-level adjustment m of that prayer lies exactly (u + m) minutes   *)
(* after the instant computed with both set to zero and all else equal.    *)
(***************************************************************************)
Adjusted == {"Fajr", "Sunrise", "Dhuhr", "Asr", "Maghrib", "Ishaa"}

AdjustmentOf(adjustment, prayer) ==
    CASE prayer = "Fajr" -> adjustment.fajr
      [] prayer = "Sunrise" -> adjustment.sunrise
      [] prayer = "Dhuhr" -> adjustment.dhuhr
      [] prayer = "Asr" -> adjustment.asr
      [] prayer = "Maghrib" -> adjustment.maghrib
      [] prayer = "Ishaa" -> adjustment.ishaa

WithoutAdjustment(adjustment, prayer) ==
    CASE prayer = "Fajr" -> [adjustment EXCEPT !.fajr = 0]
      [] prayer = "Sunrise" -> [adjustment EXCEPT !.sunrise = 0]
      [] prayer = "Dhuhr" -> [adjustment EXCEPT !.dhuhr = 0]
      [] prayer = "Asr" -> [adjustment EXCEPT !.asr = 0]
      [] prayer = "Maghrib" -> [adjustment EXCEPT !.maghrib = 0]
      [] prayer = "Ishaa" -> [adjustment EXCEPT !.ishaa = 0]

\* The schedule of the same date, place and parameters with both adjustments
\* of `prayer` set to zero.
Unadjusted(schedule, prayer) ==
    PrayerTimesNew(schedule.date \div SecondsPerDay, schedule.coordinates,
        [schedule.parameters EXCEPT
            !.adjustments = WithoutAdjustment(@, prayer),
            !.method_adjustments = WithoutAdjustment(@, prayer)])

C8_AdjustmentLinearity ==
    Returned =>
        \A prayer \in Adjusted :
            time(Schedule, prayer) - time(Unadjusted(Schedule, prayer), prayer)
                = 60 * (AdjustmentOf(Schedule.parameters.adjustments, prayer)
                        + AdjustmentOf(Schedule.parameters.method_adjustments, prayer))

\* C8: a schedule whose six prayers all carry a user-level and a method-level
\* adjustment, rounded to the nearest minute.
C8_Witness ==
    /\ Returned
    /\ Schedule.parameters.rounding = "Nearest"
    /\ \A prayer \in Adjusted :
          /\ AdjustmentOf(Schedule.parameters.adjustments, prayer) # 0
          /\ AdjustmentOf(Schedule.parameters.method_adjustments, prayer) # 0
          /\ time(Schedule, prayer) # time(Unadjusted(Schedule, prayer), prayer)

(***************************************************************************)
(* C9.  The configured rounding is applied, after adjustment, to Fajr,     *)
(* Sunrise, Dhuhr, Asr, Maghrib, Ishaa and FajrTomorrow: under Nearest and *)
(* Ceil each is a whole minute, under None each is the adjusted instant    *)
(* as it was computed.                                                     *)
(***************************************************************************)
RoundedByPolicy == {"Fajr", "Sunrise", "Dhuhr", "Asr", "Maghrib", "Ishaa", "FajrTomorrow"}

\* The schedule of the same date, place and parameters left unrounded.
Unrounded(schedule) ==
    PrayerTimesNew(schedule.date \div SecondsPerDay, schedule.coordinates,
                   [schedule.parameters EXCEPT !.rounding = "None"])

C9_PolicyApplied ==
    Returned =>
        \A prayer \in RoundedByPolicy :
            /\ time(Schedule, prayer) =
                  rounded_minute(time(Unrounded(Schedule), prayer), Schedule.parameters.rounding)
            /\ Schedule.parameters.rounding # "None" => WholeMinute(time(Schedule, prayer))

(***************************************************************************)
(* C10.  With d = FajrTomorrow - Maghrib (the final Maghrib), the middle   *)
(* of the night is Maghrib + d/2 and Qiyam is Maghrib + 2d/3, each rounded *)
(* to the nearest minute under every configured policy: both are whole     *)
(* minutes, at most half a minute from the exact instant.                  *)
(***************************************************************************)
C10_QiyamNearestMinute ==
    Returned =>
        LET maghrib == time(Schedule, "Maghrib")
            d == time(Schedule, "FajrTomorrow") - maghrib
            middle == Schedule.middle_of_the_night
            qiyam == time(Schedule, "Qiyam")
        IN /\ WholeMinute(middle)
           /\ WholeMinute(qiyam)
           /\ 2 * (middle - 30) <= 2 * maghrib + d
           /\ 2 * maghrib + d < 2 * (middle + 30)
           /\ 3 * (qiyam - 30) <= 3 * maghrib + 2 * d
           /\ 3 * maghrib + 2 * d < 3 * (qiyam + 30)

\* C10: a schedule left unrounded (Rounding::None) whose Maghrib and
\* FajrTomorrow carry seconds, and whose two night instants were moved by the
\* rounding, one up and one down.
C10_Witness ==
    /\ Returned
    /\ Schedule.parameters.rounding = "None"
    /\ ~WholeMinute(time(Schedule, "Maghrib"))
    /\ ~WholeMinute(time(Schedule, "FajrTomorrow"))
    /\ LET maghrib == time(Schedule, "Maghrib")
           d == time(Schedule, "FajrTomorrow") - maghrib
       IN /\ d > 0
          /\ 2 * Schedule.middle_of_the_night > 2 * maghrib + d
          /\ 3 * time(Schedule, "Qiyam") < 3 * maghrib + 2 * d

(***************************************************************************)
(* C4 as claimed.  For every schedule and every probe, at any resolution   *)
(* below the second, current_time returns the first prayer of              *)
(* FajrTomorrow, Qiyam, Ishaa, Maghrib, Asr, Dhuhr, Sunrise, Fajr whose    *)
(* instant is at or before the probe, and None exactly when no instant is. *)
(***************************************************************************)
Position(prayer) == CHOOSE i \in 1..Len(Prayer) : Prayer[i] = prayer

\* The instants of a schedule are whole seconds: one is at or before the
\* probe when it is at or before the probe's whole seconds.
FirstStarted(self, probe) ==
    LET started == {i \in 1..Len(Prayer) : time(self, Prayer[i]) <= probe.secs}
    IN IF started = {} THEN None
       ELSE Some(Prayer[CHOOSE i \in started : \A j \in started : j <= i])

C4_FirstStartedPrayer ==
    (ret.kind = "Answer" /\ ret.call = "current_time") =>
        ret.value = FirstStarted(unwrap(times), ret.time)

(***************************************************************************)
(* C5.  next() returns the successor, in the order of the schedule, of     *)
(* the current prayer: Fajr -> Sunrise -> Dhuhr -> Asr -> Maghrib ->       *)
(* Ishaa -> Qiyam -> FajrTomorrow, and FajrTomorrow after FajrTomorrow:    *)
(* never Fajr.                                                             *)
(***************************************************************************)
C5_NextIsSuccessor ==
    (ret.kind = "Answer" /\ ret.call = "next") =>
        LET current_prayer == unwrap(current_time(unwrap(times), ret.time))
            i == Position(current_prayer)
        IN /\ ret.value = IF i < Len(Prayer) THEN Prayer[i + 1] ELSE "FajrTomorrow"
           /\ ret.value # "Fajr"

\* C5: next() called once tomorrow's Fajr has begun.
C5_Witness ==
    /\ ret.kind = "Answer"
    /\ ret.call = "next"
    /\ current_time(unwrap(times), ret.time) = Some("FajrTomorrow")
    /\ ret.value = "FajrTomorrow"

(***************************************************************************)
(* C11.  For each rounding policy and every instant t, rounding the        *)
(* rounded instant again by the same policy changes nothing:               *)
(* round(round(t)) = round(t).  The instants are those of returned         *)
(* schedules, which carry seconds under Rounding::None and in FajrTomorrow.*)
(***************************************************************************)
C11_RoundingIdempotent ==
    Returned =>
        \A prayer \in PrayerSet, rounding \in Rounding :
            LET once == rounded_minute(time(Schedule, prayer), rounding)
            IN rounded_minute(once, rounding) = once

\* C11: an unrounded schedule one of whose instants Nearest moves down and
\* another up, and Ceil moves up, while an instant already on a whole minute
\* is there as well.
C11_Witness ==
    /\ Returned
    /\ Schedule.parameters.rounding = "None"
    /\ \E prayer \in PrayerSet :
          rounded_minute(time(Schedule, prayer), "Nearest") < time(Schedule, prayer)
    /\ \E prayer \in PrayerSet :
          rounded_minute(time(Schedule, prayer), "Nearest") > time(Schedule, prayer)
    /\ \E prayer \in PrayerSet :
          rounded_minute(time(Schedule, prayer), "Ceil") > time(Schedule, prayer)
    /\ \E prayer \in PrayerSet : WholeMinute(time(Schedule, prayer))

(***************************************************************************)
(* C14.  For the same date, coordinates and other parameters, Asr under    *)
(* Mazhab::Hanafi is at or after Asr under Mazhab::Shafi.                  *)
(***************************************************************************)
WithMadhab(schedule, madhab) ==
    PrayerTimesNew(schedule.date \div SecondsPerDay, schedule.coordinates,
                   [schedule.parameters EXCEPT !.madhab = madhab])

C14_HanafiAsrNotEarlier ==
    Returned =>
        time(WithMadhab(Schedule, "Hanafi"), "Asr") >= time(WithMadhab(Schedule, "Shafi"), "Asr")

\* C14: a Hanafi schedule whose Asr is later than the Shafi one.
C14_Witness ==
    /\ Returned
    /\ Schedule.parameters.madhab = "Hanafi"
    /\ time(Schedule, "Asr") > time(WithMadhab(Schedule, "Shafi"), "Asr")

(***************************************************************************)
(* C19.  Two schedules of the same date, coordinates and parameters that   *)
(* differ only in madhab have the same Fajr, Sunrise, Dhuhr, Maghrib,      *)
(* Ishaa, middle of the night, Qiyam and FajrTomorrow.                     *)
(***************************************************************************)
C19_MadhabOnlyMovesAsr ==
    Returned =>
        LET shafi == WithMadhab(Schedule, "Shafi")
            hanafi == WithMadhab(Schedule, "Hanafi")
        IN /\ \A prayer \in PrayerSet \ {"Asr"} : time(shafi, prayer) = time(hanafi, prayer)
           /\ shafi.middle_of_the_night = hanafi.middle_of_the_night

\* C19: a Shafi schedule with adjustments at both levels whose Hanafi
\* counterpart has another Asr.
C19_Witness ==
    /\ Returned
    /\ Schedule.parameters.madhab = "Shafi"
    /\ Schedule.parameters.adjustments # NoAdjustment
    /\ Schedule.parameters.method_adjustments # NoAdjustment
    /\ time(WithMadhab(Schedule, "Hanafi"), "Asr") # time(Schedule, "Asr")

(***************************************************************************)
(* C20.  With the preset of Method::UmmAlQura as it is, the reported Ishaa *)
(* is exactly 90 minutes after the reported Maghrib, for every date and    *)
(* coordinate.                                                             *)
(***************************************************************************)
C20_UmmAlQuraIshaa ==
    (Returned /\ Schedule.parameters = method_parameters("UmmAlQura")) =>
        time(Schedule, "Ishaa") - time(Schedule, "Maghrib") = 90 * SecondsPerMinute

\* C20: an UmmAlQura schedule whose sunset carries seconds, so that both
\* Maghrib and Ishaa were moved by the rounding.
C20_Witness ==
    /\ Returned
    /\ Schedule.parameters = method_parameters("UmmAlQura")
    /\ ~WholeMinute(SolarOf(Schedule).sunset)
    /\ time(Schedule, "Maghrib") # SolarOf(Schedule).sunset
    /\ time(Schedule, "Ishaa") = time(Schedule, "Maghrib") + 90 * SecondsPerMinute

(***************************************************************************)
(* Claims about Parameters, Configuration and DateDto (SpecConfiguration). *)
(***************************************************************************)
Called(call) == ret.kind = "Return" /\ ret.call = call

\* Two fractions <<numerator, denominator>> denote the same number.
SameFraction(a, b) == a[1] * b[2] = b[1] * a[2]

\* The dusk of a Parameters value is given as an interval after sunset.
IntervalBased(parameters) ==
    IF "ishaa_interval" \in DOMAIN parameters
    THEN parameters.ishaa_interval # 0
    ELSE parameters.ishaa_parameter.tag = "Interval"

(***************************************************************************)
(* C12.  night_portions() returns (1/2, 1/2) for MiddleOfTheNight,         *)
(* (1/7, 1/7) for SeventhOfTheNight, and (fajr_angle/60, ishaa_angle/60)   *)
(* for TwilightAngle, for every Parameters value.  Angles are in tenths of *)
(* a degree, so angle/60 is the fraction angle over 600.                   *)
(***************************************************************************)
C12_NightPortions ==
    Called("night_portions") =>
        LET parameters == ret.args
            morning == ret.value[1]
            evening == ret.value[2]
        IN /\ parameters.high_latitude_rule = "MiddleOfTheNight" =>
                SameFraction(morning, <<1, 2>>) /\ SameFraction(evening, <<1, 2>>)
           /\ parameters.high_latitude_rule = "SeventhOfTheNight" =>
                SameFraction(morning, <<1, 7>>) /\ SameFraction(evening, <<1, 7>>)
           /\ parameters.high_latitude_rule = "TwilightAngle" =>
                /\ 600 * morning[1] = parameters.fajr_angle * morning[2]
                /\ 600 * evening[1] = ishaa_angle(parameters) * evening[2]

\* C12: night_portions was called under TwilightAngle on a Parameters value
\* that done() gave and whose two angles differ.
C12_Witness ==
    /\ Called("night_portions")
    /\ is_some(config)
    /\ ret.args = unwrap(config)
    /\ ret.args.high_latitude_rule = "TwilightAngle"
    /\ ret.args.fajr_angle = 180
    /\ ret.args.ishaa_angle = 150
    /\ ret.value = << <<180, 600>>, <<150, 600>> >>

\* Once Configuration::ishaa_interval was called, done() yields ishaa_angle 0
\* whatever setters were called afterwards.
AfterIshaaIntervalAngleIsZero ==
    (Called("done") /\ is_some(supplied.ishaa_interval)) =>
        /\ ret.value.ishaa_angle = 0
        /\ ret.value.ishaa_interval # 0

(***************************************************************************)
(* C13.  For every Parameters value whose dusk is interval-based (non-zero *)
(* Ishaa interval), however constructed, the evening fraction that         *)
(* night_portions() returns under TwilightAngle is 0; and after            *)
(* Configuration::ishaa_interval, done() yields ishaa_angle = 0.           *)
(***************************************************************************)
C13_IntervalEveningZero ==
    /\ (/\ Called("night_portions")
        /\ ret.args.high_latitude_rule = "TwilightAngle"
        /\ IntervalBased(ret.args)) => ret.value[2][1] = 0
    /\ AfterIshaaIntervalAngleIsZero

\* The calendar dates among the triples written out here.
WrittenOutValid(dto) ==
    /\ dto.month \in {2, 4, 12}
    /\ dto.day \in {28, 29, 30, 31}
    /\ dto.month = 4 => dto.day <= 30
    /\ dto.month = 2 => dto.day <= (IF dto.year = 2024 THEN 29 ELSE 28)

(***************************************************************************)
(* C15.  An invalid calendar date (day 32, month 13, 30 February, ...) is  *)
(* never clamped to a valid one and never yields a value: turning it into  *)
(* the UTC midnight aborts; a date of the calendar gives the midnight of   *)
(* that very year, month and day.                                          *)
(***************************************************************************)
C15_InvalidDateAborts ==
    (ret.kind \in {"Return", "Panic"} /\ ret.call = "to_utc_date") =>
        LET dto == ret.args
        IN /\ ret.kind = "Panic" <=> ~WrittenOutValid(dto)
           /\ ret.kind = "Return" =>
                /\ ret.value.year = dto.year
                /\ ret.value.month = dto.month
                /\ ret.value.day = dto.day
                /\ ret.value.hour = 0 /\ ret.value.minute = 0 /\ ret.value.second = 0

\* C15: 29 February 2023 was given and the call aborted.
C15_Witness ==
    /\ ret.kind = "Panic"
    /\ ret.call = "to_utc_date"
    /\ ret.args = DateDto(2023, 2, 29)

(***************************************************************************)
(* C18.  Configuration::with(method, madhab) returns the preset of the     *)
(* method with only madhab replaced: every other field equals the value in *)
(* method.parameters().                                                    *)
(***************************************************************************)
C18_WithReplacesOnlyMadhab ==
    Called("with") =>
        LET preset == method_parameters(ret.args[1])
        IN /\ DOMAIN ret.value = DOMAIN preset
           /\ ret.value.madhab = ret.args[2]
           /\ \A field \in DOMAIN preset \ {"madhab"} : ret.value[field] = preset[field]

\* C18: with(MoonsightingCommittee, Hanafi) returned; the preset has Shafi
\* and method adjustments that are not zero.
C18_Witness ==
    /\ Called("with")
    /\ ret.args = <<"MoonsightingCommittee", "Hanafi">>
    /\ method_parameters("MoonsightingCommittee").madhab = "Shafi"
    /\ ret.value.madhab = "Hanafi"
    /\ ret.value.method_adjustments # NoAdjustment

(***************************************************************************)
(* Claims about the calls on a schedule and the clock (SpecLookup).        *)
(***************************************************************************)
Answered(call) == ret.kind = "Answer" /\ ret.call = call

\* PrayerTimes::new and PrayerTimes::time give what the arguments alone
\* determine, at whatever instant and after whatever calls they are made.
NewAndTimeIgnoreTheClock ==
    /\ Answered("new") =>
          /\ ret.arg = <<unwrap(date), unwrap(coordinates), unwrap(params)>>
          /\ ret.value = unwrap(times)
    /\ Answered("time") => ret.value = time(unwrap(times), ret.arg)

C17_NeverChanged ==
    [][/\ times' = times
       /\ (ret'.kind = "Answer" /\ ret'.call = "time") =>
              ret'.value = time(unwrap(times), ret'.arg)]_vars

\* C17: time(Fajr) was asked after the clock had passed tomorrow's Fajr and
\* gave the Fajr that the construction from the builder's three values
\* stored.
C17_Witness ==
    /\ Answered("time")
    /\ ret.arg = "Fajr"
    /\ current_time(unwrap(times), now) = Some("FajrTomorrow")
    /\ times = Some(PrayerTimesNew(unwrap(date), unwrap(coordinates), unwrap(params)))
    /\ ret.value = unwrap(times).fajr
    /\ ret.value # unwrap(times).fajr_tomorrow

(***************************************************************************)
(* Claims about the derivation of Fajr, Ishaa and the night (Spec).        *)
(***************************************************************************)
Later2(a, b) == IF a < b THEN b ELSE a
Earlier2(a, b) == IF a > b THEN b ELSE a

\* night x fraction in whole seconds, the fraction as <<numerator, denominator>>
NightTimes(night, portion) == TruncDiv(portion[1] * night, portion[2])

\* The safety bounds as the claim words them.
WordedFajrBound(schedule) ==
    IF schedule.parameters.is_moonsighting_committee
    THEN season_adjusted_morning_twilight(schedule.coordinates.latitude,
                                          ordinal(schedule.date), SolarOf(schedule).sunrise)
    ELSE SolarOf(schedule).sunrise
            - NightTimes(NightOf(schedule), night_portions(schedule.parameters)[1])
WordedIshaaBound(schedule) ==
    IF schedule.parameters.is_moonsighting_committee
    THEN season_adjusted_evening_twilight(schedule.coordinates.latitude,
                                          ordinal(schedule.date), SolarOf(schedule).sunset,
                                          schedule.parameters.twilight)
    ELSE SolarOf(schedule).sunset
            + NightTimes(NightOf(schedule), night_portions(schedule.parameters)[2])

\* The reported instant that comes of `instant` by the adjustment of `prayer`
\* and the configured rounding.
Reported(schedule, prayer, instant) ==
    rounded_minute(adjust_time(instant, time_adjustments(schedule.parameters, prayer)),
                   schedule.parameters.rounding)

(***************************************************************************)
(* C21.  Before adjustment and rounding, Fajr is the later of its raw      *)
(* estimate and its safety bound and angle-based Ishaa the earlier of its  *)
(* raw estimate and its safety bound; the bound is the seasonal twilight   *)
(* correction under the moonsighting-committee flag and otherwise sunrise  *)
(* - night x morning fraction, or sunset + night x evening fraction, with  *)
(* night = tomorrow's sunrise - today's sunset.                            *)
(***************************************************************************)
C21_LaterAndEarlier ==
    Returned =>
        /\ time(Schedule, "Fajr") =
              Reported(Schedule, "Fajr", Later2(FajrRaw(Schedule), WordedFajrBound(Schedule)))
        /\ AngleBased(Schedule) =>
              time(Schedule, "Ishaa") =
                 Reported(Schedule, "Ishaa",
                          Earlier2(IshaaRaw(Schedule), WordedIshaaBound(Schedule)))

\* C21: an unrounded, unadjusted schedule without the flag whose Fajr is the
\* bound and whose Ishaa is the bound, both different from the raw estimates.
C21_Witness ==
    /\ Returned
    /\ AngleBased(Schedule)
    /\ ~Schedule.parameters.is_moonsighting_committee
    /\ Schedule.parameters.rounding = "None"
    /\ time_adjustments(Schedule.parameters, "Fajr") = 0
    /\ time_adjustments(Schedule.parameters, "Ishaa") = 0
    /\ FajrRaw(Schedule) < WordedFajrBound(Schedule)
    /\ time(Schedule, "Fajr") = WordedFajrBound(Schedule)
    /\ IshaaRaw(Schedule) > WordedIshaaBound(Schedule)
    /\ time(Schedule, "Ishaa") = WordedIshaaBound(Schedule)

(***************************************************************************)
(* C22.  For every interval n of an interval-based dusk (the whole range   *)
(* of the 32-bit field), Ishaa before adjustment is exactly sunset + n     *)
(* minutes, n x 60 seconds, with no safety bound and no high-latitude      *)
(* override, whatever the rule, the flag, the latitude and the night are.  *)
(***************************************************************************)
C22_IntervalIshaaExact ==
    (ret.kind \in {"Return", "Panic"} /\ ret.call = "calculate_isha"
        /\ ret.args.parameters.ishaa_parameter.tag = "Interval") =>
        /\ ret.kind = "Return"
        /\ LET sunset == SolarTime(ret.args.date, ret.args.coordinates).sunset
               adjustment == time_adjustments(ret.args.parameters, "Ishaa")
               after_sunset == adjust_time(ret.value, -adjustment) - sunset
           IN /\ after_sunset % SecondsPerMinute = 0
              /\ after_sunset \div SecondsPerMinute = ret.args.parameters.ishaa_parameter.value

\* For the intervals whose product by 60 is an i32, Ishaa before adjustment
\* is sunset + n x 60 seconds.
IntervalIshaaExactInRange ==
    (ret.kind \in {"Return", "Panic"} /\ ret.call = "calculate_isha"
        /\ ret.args.parameters.ishaa_parameter.tag = "Interval"
        /\ ~mul_60_overflows(ret.args.parameters.ishaa_parameter.value)) =>
        /\ ret.kind = "Return"
        /\ adjust_time(ret.value, -time_adjustments(ret.args.parameters, "Ishaa"))
              - SolarTime(ret.args.date, ret.args.coordinates).sunset
           = ret.args.parameters.ishaa_parameter.value * SecondsPerMinute

\* The schedule PrayerTimes::new gives for the day after that of `schedule`,
\* place and parameters being the same.
NextDaySchedule(schedule) ==
    PrayerTimesNew(schedule.date \div SecondsPerDay + 1, schedule.coordinates,
                   schedule.parameters)

(***************************************************************************)
(* C23.  For every date D, place and parameters, time(FajrTomorrow) of the *)
(* schedule for D equals time(Fajr) of the schedule for D+1 with the same  *)
(* place and parameters.                                                   *)
(***************************************************************************)
C23_FajrTomorrowIsNextFajr ==
    Returned => time(Schedule, "FajrTomorrow") = time(NextDaySchedule(Schedule), "Fajr")

\* FajrTomorrow of D is Fajr of D+1 before rounding: rounding it by the
\* configured policy gives Fajr of D+1.
FajrTomorrowIsNextFajrUnrounded ==
    Returned =>
        rounded_minute(time(Schedule, "FajrTomorrow"), Schedule.parameters.rounding)
            = time(NextDaySchedule(Schedule), "Fajr")

(***************************************************************************)
(* Claims about current(), next() and time_remaining() (SpecLookup).       *)
(***************************************************************************)
ClockCalls == {"current", "next", "time_remaining"}

\* The probe lies before the Fajr of the schedule.
PrecedesFajr(self, probe) == Later(Instant(self.fajr, FALSE), probe)

(***************************************************************************)
(* C24.  current() returns the prayer current_time gives at the ambient    *)
(* instant when that is Some, and aborts with "Out of bounds" when the     *)
(* instant precedes Fajr; next() and time_remaining() abort in the same    *)
(* situation: before Fajr none of the three returns a value, and next()    *)
(* never gives Fajr.                                                       *)
(***************************************************************************)
C24_AbortBeforeFajr ==
    /\ Answered("current") => current_time(unwrap(times), ret.time) = Some(ret.value)
    /\ Answered("next") => ret.value # "Fajr"
    /\ (ret.kind \in {"Answer", "Panic"} /\ ret.call \in ClockCalls) =>
          /\ PrecedesFajr(unwrap(times), ret.time) <=> ret.kind = "Panic"
          /\ ret.kind = "Panic" => ret.message = "Out of bounds"

\* The three calls abort, with "Out of bounds", exactly when current_time
\* gives None at the instant they read; current() returns what it gives.
AbortExactlyWhenNone ==
    /\ Answered("current") => current_time(unwrap(times), ret.time) = Some(ret.value)
    /\ Answered("next") => ret.value # "Fajr"
    /\ (ret.kind \in {"Answer", "Panic"} /\ ret.call \in ClockCalls) =>
          /\ current_time(unwrap(times), ret.time) = None <=> ret.kind = "Panic"
          /\ ret.kind = "Panic" => ret.message = "Out of bounds"

\* The whole seconds from the second reading of the clock to the prayer that
\* time_remaining counted to.
RemainingSeconds == num_seconds_since(time(unwrap(times), ret.arg), ret.time)

\* The whole minutes nearest to `seconds`; two of them when it lies half-way.
NearestMinutes(seconds) ==
    {m \in {seconds \div SecondsPerMinute, seconds \div SecondsPerMinute + 1} :
        2 * Abs(seconds - m * SecondsPerMinute) <= SecondsPerMinute}

(***************************************************************************)
(* C25.  For every schedule and every ambient instant at which the next    *)
(* prayer lies in the future, time_remaining() returns (hours, minutes)    *)
(* with minutes in 0..=59 and hours x 60 + minutes equal to the remaining  *)
(* whole seconds rounded to the nearest minute.                            *)
(***************************************************************************)
C25_HoursAndMinutes ==
    (Answered("time_remaining") /\ RemainingSeconds > 0) =>
        /\ ret.value[2] \in 0..59
        /\ ret.value[1] * 60 + ret.value[2] \in NearestMinutes(RemainingSeconds)

\* The pair of time_remaining adds up to the nearest minute of the remaining
\* seconds, the minutes being at most 60.
HoursAndMinutesAddUp ==
    (Answered("time_remaining") /\ RemainingSeconds > 0) =>
        /\ ret.value[2] \in 0..60
        /\ ret.value[1] * 60 + ret.value[2] \in NearestMinutes(RemainingSeconds)

\* The eight instants of the schedule are strictly increasing.
StrictlyIncreasing(self) ==
    \A i \in 1..(Len(Prayer) - 1) : time(self, Prayer[i]) < time(self, Prayer[i + 1])

\* The place of a result of current_time in None, Fajr, ..., FajrTomorrow.
PositionOf(result) == IF result = None THEN 0 ELSE Position(unwrap(result))

(***************************************************************************)
(* C26.  In a schedule whose eight instants are strictly increasing, the   *)
(* result of current_time only moves forward through None, Fajr, Sunrise,  *)
(* Dhuhr, Asr, Maghrib, Ishaa, Qiyam, FajrTomorrow as the probe advances:  *)
(* for p1 <= p2 the result at p2 is at no earlier place than the result at *)
(* p1, and after FajrTomorrow every later probe gives FajrTomorrow.        *)
(***************************************************************************)
C26_OnlyForward ==
    (Answered("current_time") /\ StrictlyIncreasing(unwrap(times))) =>
        \A probe \in Probes(unwrap(times)) :
            /\ ~Later(probe, ret.time) =>
                  PositionOf(current_time(unwrap(times), probe)) <= PositionOf(ret.value)
            /\ (Later(probe, ret.time) /\ ret.value = Some("FajrTomorrow")) =>
                  current_time(unwrap(times), probe) = Some("FajrTomorrow")

\* C26: current_time gave FajrTomorrow in a strictly increasing schedule in
\* which earlier probes give None and Dhuhr and a later probe exists.
C26_Witness ==
    /\ Answered("current_time")
    /\ StrictlyIncreasing(unwrap(times))
    /\ ret.value = Some("FajrTomorrow")
    /\ \E probe \in Probes(unwrap(times)) :
          ~Later(probe, ret.time) /\ current_time(unwrap(times), probe) = None
    /\ \E probe \in Probes(unwrap(times)) :
          ~Later(probe, ret.time) /\ current_time(unwrap(times), probe) = Some("Dhuhr")
    /\ \E probe \in Probes(unwrap(times)) : Later(probe, ret.time)

(***************************************************************************)
(* C27.  In a schedule whose eight instants are strictly increasing, for   *)
(* every probe at which current_time returns a prayer other than           *)
(* FajrTomorrow, the instant of the successor that next gives is strictly  *)
(* later than the probe: the time to the next prayer is positive.          *)
(***************************************************************************)
C27_SuccessorAhead ==
    (/\ Answered("next")
     /\ StrictlyIncreasing(unwrap(times))
     /\ current_time(unwrap(times), ret.time) # Some("FajrTomorrow")) =>
        /\ Later(Instant(time(unwrap(times), ret.value), FALSE), ret.time)
        /\ num_seconds_since(time(unwrap(times), ret.value), ret.time) > 0

\* C27: next() was asked half a second before Ishaa, where current_time
\* already gives Ishaa, and answered Qiyam, which lies ahead.
C27_Witness ==
    /\ Answered("next")
    /\ StrictlyIncreasing(unwrap(times))
    /\ ret.time = Instant(unwrap(times).ishaa - 1, TRUE)
    /\ ret.value = "Qiyam"
    /\ unwrap(times).qiyam > unwrap(times).ishaa

\* Maghrib, the middle of the night, Qiyam and tomorrow's Fajr in order.
NightInOrder(maghrib, middle_of_the_night, qiyam, fajr_tomorrow) ==
    /\ maghrib <= middle_of_the_night
    /\ middle_of_the_night <= qiyam
    /\ qiyam <= fajr_tomorrow

(***************************************************************************)
(* C28.  Whenever tomorrow's Fajr is at least 2 minutes after the final    *)
(* Maghrib, Maghrib <= middle of the night <= Qiyam <= FajrTomorrow, for   *)
(* a Maghrib on a whole minute (rounded) and for one carrying seconds.     *)
(***************************************************************************)
C28_NightInOrder ==
    (/\ Called("calculate_qiyam")
     /\ ret.args.tomorrow_fajr - ret.args.current_maghrib >= 2 * SecondsPerMinute) =>
        NightInOrder(ret.args.current_maghrib, ret.value[1], ret.value[2],
                     ret.args.tomorrow_fajr)

\* C28: a night of exactly two minutes after a Maghrib 41 seconds past the
\* minute: the middle is moved up by the rounding and the last third down,
\* onto the same minute.
C28_Witness ==
    /\ Called("calculate_qiyam")
    /\ ret.args.current_maghrib = 41
    /\ ret.args.tomorrow_fajr = 41 + 2 * SecondsPerMinute
    /\ ret.value[1] > 41 + SecondsPerMinute
    /\ ret.value[2] < 41 + 80
    /\ ret.value[1] = ret.value[2]
    /\ ret.value[2] <= ret.args.tomorrow_fajr

\* In every schedule the instants of the night are in order; tomorrow's Fajr
\* is hours after Maghrib there.
SchedulesNightInOrder ==
    Returned =>
        /\ time(Schedule, "FajrTomorrow") - time(Schedule, "Maghrib") >= 2 * SecondsPerMinute
        /\ NightInOrder(time(Schedule, "Maghrib"), Schedule.middle_of_the_night,
                        time(Schedule, "Qiyam"), time(Schedule, "FajrTomorrow"))

(***************************************************************************)
(* C29.  On the PrayerSchedule builder, on, for_location and               *)
(* with_configuration each replace only their own field, the last call     *)
(* winning, and leave the other two unchanged; calculate() leaves the      *)
(* builder unchanged, so that calculate() repeated without a setter in     *)
(* between returns equal results.                                          *)
(***************************************************************************)
C29_BuilderFrame ==
    [][/\ (supplied'.date # supplied.date /\ is_some(supplied'.date)) =>
             /\ date' = supplied'.date
             /\ coordinates' = coordinates /\ params' = params
       /\ (supplied'.coordinates # supplied.coordinates /\ is_some(supplied'.coordinates)) =>
             /\ coordinates' = supplied'.coordinates
             /\ date' = date /\ params' = params
       /\ (supplied'.params # supplied.params /\ is_some(supplied'.params)) =>
             /\ params' = supplied'.params
             /\ date' = date /\ coordinates' = coordinates
       /\ ret'.kind \in {"Ok", "Err"} =>
             /\ date' = date /\ coordinates' = coordinates /\ params' = params
             /\ ret' = calculate_result(date', coordinates', params')
             /\ ret.kind \in {"Ok", "Err"} => ret' = ret]_vars

\* C29: calculate() returned a schedule from a builder that holds the date,
\* the place and the parameters given last, the place being the northern one
\* and the date the first.
C29_Witness ==
    /\ Returned
    /\ date = supplied.date /\ coordinates = supplied.coordinates /\ params = supplied.params
    /\ date = Some(0)
    /\ unwrap(coordinates).latitude = HighLatitude
    /\ unwrap(params).rounding = "Ceil"
    /\ ret = calculate_result(date, coordinates, params)

====
